---- MODULE Spec2Model ----
(***************************************************************************)
(* Coordination layer of the parallel / simulated-multi-agent training     *)
(* programs:                                                               *)
(*   - ParallelizationModel (MASCNN_5/MASModelCNN.py): agents, step,       *)
(*     synchronize_weights, report_testing_accuracy;                       *)
(*   - train_simulated (MASDL-HP/mainMASCNN.py): the worker's epoch loop   *)
(*     with the synchronization callback and early stopping;               *)
(*   - parallel_kfold / main (EXTENDED_REAL_PAR8020/main_p8020_EXT.py):    *)
(*     the process pool, the join, best-fold selection and the summary.    *)
(*                                                                         *)
(* Tensors are abstracted to one rational number per parameter name;       *)
(* floating-point division is modelled as exact rational division.         *)
(***************************************************************************)
EXTENDS Integers, Sequences, FiniteSets, TLC

(***************************************************************************)
(* Bounds of the model.                                                    *)
(***************************************************************************)
MaxProcs == 2
MaxAgents == 3
MaxW == 1
MaxSyncCalls == 2
MaxEpochs == 3
MaxPatience == 2
MaxRoundEpochs == 2
MaxRoundPatience == 1
MaxBatches == 2
MaxLoss == 2
MaxFolds == 5
MaxPool == 2
MaxAcc == 1
MaxSamples == 6
MaxTrain == 8
MaxShards == 6
MaxDur == 2
MaxTotal == 2

(***************************************************************************)
(* Exact rationals <<numerator, denominator>>, denominator > 0, in lowest  *)
(* terms: the value of one parameter tensor.                               *)
(***************************************************************************)
Abs(i) == IF i < 0 THEN -i ELSE i

RECURSIVE GCD(_, _)
GCD(a, b) == IF b = 0 THEN a ELSE GCD(b, a % b)

RatNorm(n, d) ==
    LET g == GCD(Abs(n), d)
    IN  <<n \div g, d \div g>>

RatOfInt(i) == <<i, 1>>

RatAdd(p, q) == RatNorm(p[1] * q[2] + q[1] * p[2], p[2] * q[2])

RatDivInt(p, n) == RatNorm(p[1], p[2] * n)

(***************************************************************************)
(* State dicts: parameter name -> tensor.  None is Python's None.          *)
(***************************************************************************)
Names == {"weight", "bias"}

None == <<>>

WVals == 0 .. MaxW

StateDicts == [Names -> {RatOfInt(v) : v \in WVals}]

\* Variant: the accumulator starts from the values of the argument.
zeros_like_Copy(sd) == sd

\* torch.zeros_like(v) for every k, v of the dict
zeros_like(sd) == [k \in DOMAIN sd |-> RatOfInt(0)]

AgentIds(n) == 0 .. (n - 1)

(***************************************************************************)
(* State.                                                                  *)
(*   num_processors     args.processors, the number of agents              *)
(*   neural_net_model   agent id -> the agent's model parameters or None   *)
(*   pre_sync           neural_net_model at entry of the latest            *)
(*                      synchronize_weights call                           *)
(*   sync_arg           model_state_dict argument of the latest call       *)
(*   sync_calls         number of synchronize_weights calls so far         *)
(*   seed_alias         the agent whose parameter tensors the latest       *)
(*                      model_state_dict refers to, or NoAlias             *)
(*   seed_after         what that model_state_dict holds after the call    *)
(*   n_train            X_train.shape[0], the training examples            *)
(*   shard_X, shard_y   agent id -> the indices of X_train / y_train the   *)
(*                      agent was created with, in order                   *)
(*   epochs, patience   args.epochs, args.patience                         *)
(*   num_batches        len(train_loader), mini-batches per epoch          *)
(*   activation, loss, optimizer                                           *)
(*                      args.activation, args.loss, args.optimizer         *)
(*   sync_callback      the sync_callback argument of train_simulated      *)
(*   mpc                position of ParallelizationModel.step              *)
(*   cur                index of the agent the scheduler is stepping       *)
(*   tpc                position of the running train_simulated call       *)
(*   epoch, batch       loop indices of train_simulated                    *)
(*   local              parameters of the model local to train_simulated   *)
(*   best_val_loss, epochs_without_improvement, val_loss                   *)
(*                      early-stopping state of train_simulated            *)
(*   epochs_begun, batches_run, callbacks_run, validations_run             *)
(*                      work done by the running train_simulated call:     *)
(*                      loop bodies entered, optimizer steps, callback     *)
(*                      calls, validations                                 *)
(*   processing_times   the list of epoch durations of train_simulated     *)
(*   slowest_processing_time                                               *)
(*                      the time train_simulated returns (0: not set)      *)
(*   train_exc          the exception train_simulated raised, or None      *)
(*   processing_time, correct_classifications, total_examples_processed    *)
(*                      agent id -> the metrics of the agent               *)
(*   summary            the figures step prints, or None                   *)
(*   test_model         the parameters report_testing_accuracy ran the     *)
(*                      test data through, or None                         *)
(*   test_mode          the mode of that model during the inference        *)
(*   test_grad          whether gradients were enabled during it           *)
(*   folds, processors  args.folds, args.processors of the k-fold program  *)
(*   n_samples          len(X), the examples of the loaded dataset         *)
(*   test_idx           indices of X that train_test_split(test_size=0.2,  *)
(*                      random_state=42) puts in X_test                    *)
(*   tasks              fold -> the (train_idx, val_idx) pair dispatched   *)
(*   kpc                position of main / parallel_kfold                  *)
(*   chunksize          chunk size chosen by starmap                       *)
(*   taskqueue          chunks not yet taken by a pool worker              *)
(*   worker             pool worker -> the chunk it runs, its position in  *)
(*                      the chunk and the results produced so far          *)
(*   mr_value, mr_success, mr_number_left                                  *)
(*                      the MapResult of the starmap call                  *)
(*   completed          chunks in the order their results were delivered   *)
(*   raised             fold units whose train call raised, in that order  *)
(*   results, error     what parallel_kfold returned / raised              *)
(*   best_model_idx, tested_model, test_evaluated, summary_emitted         *)
(*                      selection, test evaluation and summary of main     *)
(***************************************************************************)
VARIABLES folds, processors, n_samples, test_idx, tasks,
          kpc, chunksize, taskqueue, worker,
          mr_value, mr_success, mr_number_left, completed, raised,
          results, error,
          best_model_idx, tested_model, test_evaluated, summary_emitted

VARIABLES num_processors, neural_net_model, pre_sync, sync_arg, sync_calls,
          seed_alias, seed_after,
          n_train, shard_X, shard_y,
          epochs, patience, num_batches,
          activation, loss, optimizer, sync_callback,
          mpc, cur, tpc, epoch, batch, local,
          best_val_loss, epochs_without_improvement, val_loss,
          epochs_begun, batches_run, callbacks_run, validations_run,
          processing_times, slowest_processing_time, train_exc,
          processing_time, correct_classifications, total_examples_processed,
          summary, test_model, test_mode, test_grad

syncVars == <<num_processors, neural_net_model, pre_sync, sync_arg, sync_calls,
              seed_alias, seed_after>>

argVars == <<n_train, shard_X, shard_y, epochs, patience, num_batches,
             activation, loss, optimizer, sync_callback>>

trainVars == <<tpc, epoch, batch, local, best_val_loss,
               epochs_without_improvement, val_loss,
               epochs_begun, batches_run, callbacks_run, validations_run,
               processing_times, slowest_processing_time, train_exc>>

stepVars == <<mpc, cur>>

metricVars == <<processing_time, correct_classifications,
                total_examples_processed>>

reportVars == <<metricVars, summary, test_model, test_mode, test_grad>>

simVars == <<syncVars, argVars, stepVars, trainVars, reportVars>>

poolVars == <<folds, processors, n_samples, test_idx, tasks,
              chunksize, taskqueue, worker,
              mr_value, mr_success, mr_number_left, completed, raised>>

mainVars == <<kpc, results, error, best_model_idx, tested_model,
              test_evaluated, summary_emitted>>

vars == <<simVars, poolVars, mainVars>>

\* float('inf'): larger than every finite loss
Inf == MaxLoss + 1

Losses == 0 .. MaxLoss

(***************************************************************************)
(* ParallelizationModel.synchronize_weights                                *)
(***************************************************************************)
\* len(self.schedule.agents)
NumAgents(nn) == Cardinality(DOMAIN nn)

\* for agent in self.schedule.agents: if agent.neural_net_model is not None:
\*     for k, v in state_dict().items(): global_weights[k] += v
RECURSIVE CollectWeights(_, _, _)
CollectWeights(nn, global_weights, i) ==
    IF i = NumAgents(nn)
    THEN global_weights
    ELSE CollectWeights(nn,
             IF nn[i] # None
             THEN [k \in DOMAIN global_weights |->
                      RatAdd(global_weights[k], nn[i][k])]
             ELSE global_weights,
             i + 1)

\* Variant: the sum is broadcast without dividing it.
AverageWeights_NoDivide(global_weights, num_agents) == global_weights

\* for k in global_weights: global_weights[k] /= num_agents
AverageWeights(global_weights, num_agents) ==
    [k \in DOMAIN global_weights |-> RatDivInt(global_weights[k], num_agents)]

\* for agent in self.schedule.agents: if agent.neural_net_model is not None:
\*     agent.neural_net_model.load_state_dict(global_weights)
LoadWeights(nn, global_weights) ==
    [a \in DOMAIN nn |-> IF nn[a] # None THEN global_weights ELSE None]

synchronize_weights(nn, model_state_dict) ==
    IF model_state_dict = None
    THEN nn
    ELSE LoadWeights(nn,
             AverageWeights(CollectWeights(nn, zeros_like(model_state_dict), 0),
                            NumAgents(nn)))

\* The argument is a dict of tensors of its own, not tensors of an agent.
NoAlias == -1

\* What the caller's model_state_dict holds after the call.  The dict of
\* agent.neural_net_model.state_dict() refers to the agent's parameter
\* tensors and load_state_dict copies into those tensors in place; the call
\* itself only reads the argument (zeros_like).
SeedAfter(nn_after, model_state_dict, alias) ==
    IF model_state_dict = None
    THEN None
    ELSE IF alias = NoAlias THEN model_state_dict ELSE nn_after[alias]

\* One call of synchronize_weights(model_state_dict) on the current agents,
\* with the dict of agent alias's model or a dict of its own as argument.
SyncCall(model_state_dict, alias) ==
    /\ pre_sync' = neural_net_model
    /\ sync_arg' = model_state_dict
    /\ sync_calls' = sync_calls + 1
    /\ neural_net_model' = synchronize_weights(neural_net_model, model_state_dict)
    /\ seed_alias' = IF model_state_dict = None THEN NoAlias ELSE alias
    /\ seed_after' = SeedAfter(neural_net_model', model_state_dict, alias)

\* A pool worker without a chunk.
IdleWorker == [chunk |-> -1, pos |-> 0, out |-> <<>>]

\* The k-fold program is not running.
PoolIdle ==
    /\ folds = 1 /\ processors = 1 /\ kpc = "off" /\ chunksize = 0
    /\ n_samples = 0 /\ test_idx = {} /\ tasks = <<>>
    /\ taskqueue = <<>> /\ worker = [w \in 1 .. 1 |-> IdleWorker]
    /\ mr_value = <<>> /\ mr_success = TRUE /\ mr_number_left = 0
    /\ completed = <<>> /\ raised = <<>> /\ results = None /\ error = None
    /\ best_model_idx = -1 /\ tested_model = -1
    /\ test_evaluated = FALSE /\ summary_emitted = FALSE

\* No train_simulated call is running.
TrainIdle ==
    /\ tpc = "idle" /\ epoch = 0 /\ batch = 0 /\ local = None
    /\ best_val_loss = Inf /\ epochs_without_improvement = 0 /\ val_loss = 0
    /\ epochs_begun = 0
    /\ batches_run = 0 /\ callbacks_run = 0 /\ validations_run = 0
    /\ processing_times = <<>> /\ slowest_processing_time = 0
    /\ train_exc = None

\* No agent has metrics, nothing is reported.
ReportIdle ==
    /\ processing_time = <<>> /\ correct_classifications = <<>>
    /\ total_examples_processed = <<>>
    /\ summary = None
    /\ test_model = None /\ test_mode = "none" /\ test_grad = FALSE

\* The selectors train_simulated recognizes (lines 75-86, 92-100, 103-110).
ActivationSelectors == {"RELU", "LEAKY_RELU", "ELU", "SELU", "GELU", "MISH"}

LossSelectors == {"CE", "LSCE", "FC", "WCE"}

OptimizerSelectors == {"ADAM", "ADAMW", "SGDM", "RMSP"}

\* The method the agents pass as sync_callback, and no callback at all.
BoundCallback == "synchronize_weights"

NoCallback == "None"

\* Arguments of a run with recognized selectors and a callback.
ValidArgs ==
    /\ activation = "RELU" /\ loss = "CE" /\ optimizer = "ADAM"
    /\ sync_callback = BoundCallback

(***************************************************************************)
(* SpecSync: synchronize_weights applied to arbitrary agent populations.   *)
(***************************************************************************)
InitSync ==
    /\ num_processors \in 1 .. MaxAgents
    /\ neural_net_model \in [AgentIds(num_processors) -> StateDicts \cup {None}]
    /\ pre_sync = neural_net_model
    /\ sync_arg = None
    /\ seed_alias = NoAlias /\ seed_after = None
    /\ sync_calls = 0
    /\ n_train = 0 /\ shard_X = <<>> /\ shard_y = <<>>
    /\ epochs = 1 /\ patience = 1 /\ num_batches = 1
    /\ ValidArgs
    /\ mpc = "direct" /\ cur = 0
    /\ TrainIdle
    /\ ReportIdle
    /\ PoolIdle

CallSynchronize ==
    /\ mpc = "direct"
    /\ sync_calls < MaxSyncCalls
    /\ \/ \E model_state_dict \in StateDicts \cup {None} :
              SyncCall(model_state_dict, NoAlias)
       \/ \E a \in DOMAIN neural_net_model :
              /\ neural_net_model[a] # None
              /\ SyncCall(neural_net_model[a], a)
    /\ UNCHANGED <<num_processors, argVars, stepVars, trainVars>>
    /\ UNCHANGED <<reportVars, poolVars, mainVars>>

NextSync == CallSynchronize

SpecSync == InitSync /\ [][NextSync]_vars

(***************************************************************************)
(* train_simulated: the worker's epoch loop.                               *)
(***************************************************************************)
\* Variant: a loss equal to the best counts as an improvement.
Improved_OrEqual(v, best) == v <= best

\* if val_loss < best_val_loss
Improved(v, best) == v < best

\* Variant: the loop stops one epoch after the counter reached patience.
ShouldStop_Strict(counter, p) == counter > p

\* if epochs_without_improvement >= patience: break
ShouldStop(counter, p) == counter >= p

\* Variant: the loop runs one epoch more than configured.
MoreEpochs_OneExtra(e, n) == e + 1 <= n

\* for epoch in range(args.epochs): there is an epoch after epoch e
MoreEpochs(e, n) == e + 1 < n

\* An exception raised at a line of train_simulated.
Raise(type, line) == [type |-> type, line |-> line]

\* The durations an epoch can take.
Durations == 1 .. MaxDur

\* Variant: the statements of the loop body with validation ahead of the
\* synchronization callback.
EpochOrder_ValidateFirst == <<"batch", "validate", "callback", "early_stop">>

\* The statements of the body of the epoch loop, in program order: the batch
\* loop (127-140), the callback (143), the validation (145-155), the
\* early-stopping update and check (157-165).
EpochOrder == <<"batch", "callback", "validate", "early_stop">>

\* The statement after statement pos of the loop body.
Following(pos) ==
    EpochOrder[(CHOOSE j \in 1 .. Len(EpochOrder) : EpochOrder[j] = pos) + 1]

\* sync_callback(...) can be called unless it is None.
CallbackCallable(cb) == cb # NoCallback

\* Variant: the sum of the durations.
RECURSIVE SlowestOf_Sum(_)
SlowestOf_Sum(times) ==
    IF times = <<>> THEN 0 ELSE times[1] + SlowestOf_Sum(Tail(times))

\* max(processing_times)
SlowestOf(times) ==
    CHOOSE m \in {times[j] : j \in 1 .. Len(times)} :
        \A j \in 1 .. Len(times) : times[j] <= m

\* Lines 53-119: the selector chains, the fresh model, the early-stopping
\* state, the loaders; then the head of the first epoch.  The chains have no
\* else branch: an unrecognized activation leaves activation_fn unbound and
\* line 89 raises; an unrecognized loss or optimizer leaves criterion or
\* optimizer unbound until its first use in the batch loop.
TrainSetup ==
    /\ tpc = "setup"
    /\ best_val_loss' = Inf
    /\ epochs_without_improvement' = 0
    /\ epoch' = 0 /\ batch' = 0
    /\ batches_run' = 0 /\ callbacks_run' = 0 /\ validations_run' = 0
    /\ processing_times' = <<>> /\ slowest_processing_time' = 0
    /\ IF activation \in ActivationSelectors
       THEN /\ \E fresh \in StateDicts : local' = fresh
            /\ epochs_begun' = 1
            /\ train_exc' = None
            /\ tpc' = "batch"
       ELSE /\ local' = None
            /\ epochs_begun' = 0
            /\ train_exc' = Raise("UnboundLocalError", 89)
            /\ tpc' = "raised"
    /\ UNCHANGED <<syncVars, argVars, stepVars, val_loss>>
    /\ UNCHANGED <<reportVars, poolVars, mainVars>>

\* One mini-batch: zero_grad, forward, loss, backward, optimizer.step();
\* after the last one the duration of the epoch is appended.
TrainBatch ==
    /\ tpc = "batch"
    /\ IF optimizer \notin OptimizerSelectors
       THEN /\ train_exc' = Raise("UnboundLocalError", 129)
            /\ tpc' = "raised"
            /\ UNCHANGED <<local, batch, batches_run, processing_times>>
       ELSE IF loss \notin LossSelectors
       THEN /\ train_exc' = Raise("UnboundLocalError", 131)
            /\ tpc' = "raised"
            /\ UNCHANGED <<local, batch, batches_run, processing_times>>
       ELSE /\ \E updated \in StateDicts : local' = updated
            /\ batch' = batch + 1
            /\ batches_run' = batches_run + 1
            /\ IF batch + 1 = num_batches
               THEN /\ \E d \in Durations :
                        processing_times' = Append(processing_times, d)
                    /\ tpc' = Following("batch")
               ELSE /\ tpc' = "batch"
                    /\ UNCHANGED processing_times
            /\ UNCHANGED train_exc
    /\ UNCHANGED <<syncVars, argVars, stepVars, epoch, best_val_loss,
                   epochs_without_improvement, val_loss, epochs_begun,
                   callbacks_run, validations_run, slowest_processing_time>>
    /\ UNCHANGED <<reportVars, poolVars, mainVars>>

\* sync_callback(model.state_dict())
TrainCallback ==
    /\ tpc = "callback"
    /\ IF CallbackCallable(sync_callback)
       THEN /\ SyncCall(local, NoAlias)
            /\ callbacks_run' = callbacks_run + 1
            /\ tpc' = Following("callback")
            /\ UNCHANGED train_exc
       ELSE /\ train_exc' = Raise("TypeError", 143)
            /\ tpc' = "raised"
            /\ UNCHANGED <<neural_net_model, pre_sync, sync_arg, sync_calls,
                           seed_alias, seed_after, callbacks_run>>
    /\ UNCHANGED <<num_processors, argVars, stepVars, epoch, batch, local,
                   best_val_loss, epochs_without_improvement, val_loss,
                   epochs_begun, batches_run, validations_run,
                   processing_times, slowest_processing_time>>
    /\ UNCHANGED <<reportVars, poolVars, mainVars>>

\* model.eval(); val_loss = criterion(model(X_val_fold), y_val_fold).item()
TrainValidate ==
    /\ tpc = "validate"
    /\ \E v \in Losses \cup {Inf} : val_loss' = v
    /\ validations_run' = validations_run + 1
    /\ tpc' = Following("validate")
    /\ UNCHANGED <<syncVars, argVars, stepVars, epoch, batch, local,
                   best_val_loss, epochs_without_improvement,
                   epochs_begun, batches_run, callbacks_run,
                   processing_times, slowest_processing_time, train_exc>>
    /\ UNCHANGED <<reportVars, poolVars, mainVars>>

\* Lines 157-165 and the loop head: update the early-stopping state, break
\* when patience is exhausted, otherwise go on to the next epoch if any.
TrainEarlyStop ==
    /\ tpc = "early_stop"
    /\ IF Improved(val_loss, best_val_loss)
       THEN /\ best_val_loss' = val_loss
            /\ epochs_without_improvement' = 0
       ELSE /\ epochs_without_improvement' = epochs_without_improvement + 1
            /\ UNCHANGED best_val_loss
    /\ IF ShouldStop(epochs_without_improvement', patience)
       THEN tpc' = "finish" /\ UNCHANGED <<epoch, batch, epochs_begun>>
       ELSE IF MoreEpochs(epoch, epochs)
            THEN /\ tpc' = "batch" /\ epoch' = epoch + 1 /\ batch' = 0
                 /\ epochs_begun' = epochs_begun + 1
            ELSE tpc' = "finish" /\ UNCHANGED <<epoch, batch, epochs_begun>>
    /\ UNCHANGED <<syncVars, argVars, stepVars, local, val_loss,
                   batches_run, callbacks_run, validations_run,
                   processing_times, slowest_processing_time, train_exc>>
    /\ UNCHANGED <<reportVars, poolVars, mainVars>>

\* Lines 167-173: slowest time, training accuracy, return.
TrainReturn ==
    /\ tpc = "finish"
    /\ slowest_processing_time' = SlowestOf(processing_times)
    /\ tpc' = "returned"
    /\ UNCHANGED <<syncVars, argVars, stepVars, epoch, batch, local,
                   best_val_loss, epochs_without_improvement, val_loss,
                   epochs_begun, batches_run, callbacks_run, validations_run,
                   processing_times, train_exc>>
    /\ UNCHANGED <<reportVars, poolVars, mainVars>>

(***************************************************************************)
(* ProcessorAgent.step: the agent runs train_simulated on its shard with   *)
(* the model's synchronize_weights as the synchronization callback and     *)
(* keeps the returned model.                                               *)
(***************************************************************************)
AgentStepBegin ==
    /\ mpc = "schedule" /\ tpc = "idle"
    /\ cur < num_processors
    /\ tpc' = "setup"
    /\ UNCHANGED <<syncVars, argVars, stepVars, epoch, batch, local,
                   best_val_loss, epochs_without_improvement, val_loss,
                   epochs_begun, batches_run, callbacks_run, validations_run,
                   processing_times, slowest_processing_time, train_exc>>
    /\ UNCHANGED <<reportVars, poolVars, mainVars>>

AgentStepEnd ==
    /\ mpc = "schedule" /\ tpc = "returned"
    /\ neural_net_model' = [neural_net_model EXCEPT ![cur] = local]
    /\ processing_time' =
           [processing_time EXCEPT ![cur] = slowest_processing_time]
    /\ \E total \in 1 .. MaxTotal : \E correct \in 0 .. total :
           /\ total_examples_processed' =
                  [total_examples_processed EXCEPT ![cur] = total]
           /\ correct_classifications' =
                  [correct_classifications EXCEPT ![cur] = correct]
    /\ cur' = cur + 1
    /\ tpc' = "idle" /\ local' = None
    /\ UNCHANGED <<num_processors, pre_sync, sync_arg, sync_calls,
                   seed_alias, seed_after, argVars,
                   mpc, epoch, batch, best_val_loss,
                   epochs_without_improvement, val_loss,
                   epochs_begun, batches_run, callbacks_run, validations_run,
                   processing_times, slowest_processing_time, train_exc>>
    /\ UNCHANGED <<summary, test_model, test_mode, test_grad>>
    /\ UNCHANGED <<poolVars, mainVars>>

(***************************************************************************)
(* ParallelizationModel.step and report_testing_accuracy                   *)
(***************************************************************************)
\* self.schedule.step() has stepped every agent.
AllStepped == cur = num_processors /\ tpc = "idle"

\* if self.num_processors > 1: self.synchronize_weights()
StepSynchronize ==
    /\ mpc = "schedule" /\ AllStepped
    /\ IF num_processors > 1
       THEN SyncCall(None, NoAlias)
       ELSE UNCHANGED <<neural_net_model, pre_sync, sync_arg, sync_calls,
                        seed_alias, seed_after>>
    /\ mpc' = "aggregate"
    /\ UNCHANGED <<num_processors, argVars, cur, trainVars>>
    /\ UNCHANGED <<reportVars, poolVars, mainVars>>

\* sum(values) over the agents 0 .. n - 1
RECURSIVE sum(_, _)
sum(values, n) == IF n = 0 THEN 0 ELSE sum(values, n - 1) + values[n - 1]

\* Lines 63-79: aggregate the metrics of the agents and print the cumulative
\* time, the average time per node and the total accuracy.
StepAggregate ==
    /\ mpc = "aggregate"
    /\ LET n == NumAgents(neural_net_model)
           cumulative_time == sum(processing_time, n)
           total_correct == sum(correct_classifications, n)
           total_processed == sum(total_examples_processed, n)
       IN  summary' =
               [cumulative_time |-> cumulative_time,
                average_time_per_node |-> RatNorm(cumulative_time, n),
                total_correct |-> total_correct,
                total_processed |-> total_processed,
                final_accuracy |-> RatNorm(total_correct * 100, total_processed)]
    /\ mpc' = "report_sync"
    /\ UNCHANGED <<syncVars, argVars, cur, trainVars>>
    /\ UNCHANGED <<metricVars, test_model, test_mode, test_grad>>
    /\ UNCHANGED <<poolVars, mainVars>>

\* Variant: the final synchronization is called without a state dict.
ReportSeed_None(nn) == None

\* self.schedule.agents[0].neural_net_model.state_dict()
ReportSeed(nn) == nn[0]

\* self.synchronize_weights(self.schedule.agents[0].neural_net_model.state_dict())
ReportSynchronize ==
    /\ mpc = "report_sync"
    /\ SyncCall(ReportSeed(neural_net_model), 0)
    /\ mpc' = "report_eval"
    /\ UNCHANGED <<num_processors, argVars, cur, trainVars>>
    /\ UNCHANGED <<reportVars, poolVars, mainVars>>

\* Lines 119-137: agent 0's model, put in evaluation mode, is run on the
\* test data under torch.no_grad().
ReportEvaluate ==
    /\ mpc = "report_eval"
    /\ test_model' = neural_net_model[0]
    /\ test_mode' = "eval"
    /\ test_grad' = FALSE
    /\ mpc' = "done"
    /\ UNCHANGED <<syncVars, argVars, cur, trainVars>>
    /\ UNCHANGED <<metricVars, summary>>
    /\ UNCHANGED <<poolVars, mainVars>>

\* Variant: every section gets n // sections examples, the rest is dropped.
SectionSize_Floor(n, sections, i) == n \div sections

\* np.array_split: the first n % sections sections have n // sections + 1
\* elements, the others n // sections.
SectionSize(n, sections, i) ==
    n \div sections + (IF i < n % sections THEN 1 ELSE 0)

\* Start of section i: the end of section i - 1.
RECURSIVE SectionStart(_, _, _)
SectionStart(n, sections, i) ==
    IF i = 0
    THEN 0
    ELSE SectionStart(n, sections, i - 1) + SectionSize(n, sections, i - 1)

\* np.array_split(ary, sections)[i], as the indices of ary it holds
array_split(n, sections) ==
    [i \in AgentIds(sections) |->
        [j \in 1 .. SectionSize(n, sections, i) |->
            SectionStart(n, sections, i) + j - 1]]

\* _split_data_and_create_agents: one agent per processor; a single
\* processor gets the whole training set, otherwise agent i gets section i
\* of X_train and of y_train.
CreateAgents ==
    /\ mpc = "construct"
    /\ IF num_processors = 1
       THEN /\ shard_X' = [i \in AgentIds(1) |-> [j \in 1 .. n_train |-> j - 1]]
            /\ shard_y' = [i \in AgentIds(1) |-> [j \in 1 .. n_train |-> j - 1]]
       ELSE /\ shard_X' = array_split(n_train, num_processors)
            /\ shard_y' = array_split(n_train, num_processors)
    /\ neural_net_model' = [a \in DOMAIN shard_X' |-> None]
    /\ pre_sync' = neural_net_model'
    /\ processing_time' = [a \in DOMAIN shard_X' |-> 0]
    /\ correct_classifications' = [a \in DOMAIN shard_X' |-> 0]
    /\ total_examples_processed' = [a \in DOMAIN shard_X' |-> 0]
    /\ mpc' = "schedule"
    /\ UNCHANGED <<num_processors, sync_arg, sync_calls, seed_alias,
                   seed_after, n_train, epochs,
                   patience, num_batches, activation, loss, optimizer,
                   sync_callback, cur, trainVars>>
    /\ UNCHANGED <<summary, test_model, test_mode, test_grad>>
    /\ UNCHANGED <<poolVars, mainVars>>

\* The training data are loaded and ParallelizationModel.__init__ is about
\* to create the agents.
Unconstructed ==
    /\ neural_net_model = <<>>
    /\ pre_sync = <<>>
    /\ sync_arg = None
    /\ seed_alias = NoAlias /\ seed_after = None
    /\ sync_calls = 0
    /\ shard_X = <<>> /\ shard_y = <<>>
    /\ mpc = "construct" /\ cur = 0
    /\ TrainIdle
    /\ ReportIdle
    /\ PoolIdle

Init ==
    /\ num_processors \in 1 .. MaxProcs
    /\ n_train = MaxTrain
    /\ epochs \in 1 .. MaxRoundEpochs
    /\ patience \in 0 .. MaxRoundPatience
    /\ num_batches = 1
    /\ ValidArgs
    /\ Unconstructed

Next ==
    \/ CreateAgents
    \/ AgentStepBegin
    \/ TrainSetup
    \/ TrainBatch
    \/ TrainCallback
    \/ TrainValidate
    \/ TrainEarlyStop
    \/ TrainReturn
    \/ AgentStepEnd
    \/ StepSynchronize
    \/ StepAggregate
    \/ ReportSynchronize
    \/ ReportEvaluate

Spec == Init /\ [][Next]_vars

\* One agent's train_simulated call over all epoch counts, patiences, batch
\* counts, selectors and callbacks, up to its return.
InitTrain ==
    /\ num_processors = 1
    /\ n_train = MaxTrain
    /\ epochs \in 1 .. MaxEpochs
    /\ patience \in 0 .. MaxPatience
    /\ num_batches \in 1 .. MaxBatches
    /\ activation \in {"RELU", "TANH"}
    /\ loss \in {"CE", "MSE"}
    /\ optimizer \in {"ADAM", "SGD"}
    /\ sync_callback \in {BoundCallback, NoCallback}
    /\ Unconstructed

NextTrain ==
    \/ CreateAgents
    \/ AgentStepBegin
    \/ TrainSetup
    \/ TrainBatch
    \/ TrainCallback
    \/ TrainValidate
    \/ TrainEarlyStop
    \/ TrainReturn

SpecTrain == InitTrain /\ [][NextTrain]_vars

\* One agent's train_simulated call with recognized selectors, a callback
\* and one batch per epoch, over all epoch counts, patiences and validation
\* losses.
InitLoop ==
    /\ num_processors = 1
    /\ n_train = MaxTrain
    /\ epochs \in 1 .. MaxEpochs
    /\ patience \in 0 .. MaxPatience
    /\ num_batches = 1
    /\ ValidArgs
    /\ Unconstructed

\* train_simulated is sequential code that runs on once it is called: every
\* enabled step is eventually taken.
SpecLoop == InitLoop /\ [][NextTrain]_vars /\ WF_vars(NextTrain)

\* The construction of the agents over all processor counts and training
\* set sizes.
InitShard ==
    /\ num_processors \in 1 .. MaxShards
    /\ n_train \in 0 .. MaxTrain
    /\ epochs = 1 /\ patience = 1 /\ num_batches = 1
    /\ ValidArgs
    /\ Unconstructed

NextShard == CreateAgents

SpecShard == InitShard /\ [][NextShard]_vars

\* A state dict with every parameter equal to v.
Uniform(v) == [k \in Names |-> RatOfInt(v)]

\* The aggregation and the report over all agent populations:
\* self.schedule.step() has returned, every agent holds its trained model
\* and its metrics.
InitReport ==
    /\ num_processors \in 1 .. MaxProcs
    /\ neural_net_model \in [AgentIds(num_processors) -> {Uniform(v) : v \in WVals}]
    /\ pre_sync = neural_net_model
    /\ sync_arg = None
    /\ seed_alias = NoAlias /\ seed_after = None
    /\ sync_calls = 0
    /\ n_train = 0 /\ shard_X = <<>> /\ shard_y = <<>>
    /\ epochs = 1 /\ patience = 1 /\ num_batches = 1
    /\ ValidArgs
    /\ mpc = "schedule" /\ cur = num_processors
    /\ TrainIdle
    /\ processing_time \in [AgentIds(num_processors) -> Durations]
    /\ total_examples_processed \in [AgentIds(num_processors) -> 1 .. MaxTotal]
    /\ correct_classifications \in
           {c \in [AgentIds(num_processors) -> 0 .. MaxTotal] :
               \A a \in AgentIds(num_processors) :
                   c[a] <= total_examples_processed[a]}
    /\ summary = None
    /\ test_model = None /\ test_mode = "none" /\ test_grad = FALSE
    /\ PoolIdle

NextReport ==
    \/ StepSynchronize
    \/ StepAggregate
    \/ ReportSynchronize
    \/ ReportEvaluate

SpecReport == InitReport /\ [][NextReport]_vars

(***************************************************************************)
(* The k-fold program: main, parallel_kfold and the process pool behind    *)
(* pool.starmap (chunked tasks, MapResult).                                *)
(***************************************************************************)
Accs == 0 .. MaxAcc

\* What train returns for a fold: the validation accuracy and the model it
\* trained (named by the fold).
FoldResult(fold, acc) == [fold |-> fold, acc |-> acc]

\* The exception object a failing train call raises; raised_by tells the
\* exception objects of different units apart.
UnitError(fold) == [type |-> "Exception", raised_by |-> fold]

\* divmod(len(iterable), len(pool) * 4), rounded up
ChunkSize(length, procs) ==
    IF length % (procs * 4) = 0
    THEN length \div (procs * 4)
    ELSE length \div (procs * 4) + 1

\* length // chunksize + bool(length % chunksize)
NumChunks(length, cs) ==
    length \div cs + (IF length % cs = 0 THEN 0 ELSE 1)

\* Number of tasks of chunk i.
ChunkLen(i, length, cs) ==
    IF (i + 1) * cs <= length THEN cs ELSE length - i * cs

\* Variant: chunk results are stored in the order the chunks complete.
SetSlice_CompletionOrder(value, i, cs, result) ==
    LET done == Cardinality({j \in 1 .. Len(value) : value[j] # None})
    IN  [j \in 1 .. Len(value) |->
            IF j > done /\ j <= done + Len(result)
            THEN result[j - done]
            ELSE value[j]]

\* self._value[i*self._chunksize:(i+1)*self._chunksize] = result
SetSlice(value, i, cs, result) ==
    [j \in 1 .. Len(value) |->
        IF j > i * cs /\ j <= i * cs + Len(result)
        THEN result[j - i * cs]
        ELSE value[j]]

\* MapResult._set(i, (success, result))
MapSet(i, success, result) ==
    /\ mr_number_left' = mr_number_left - 1
    /\ IF success /\ mr_success
       THEN /\ mr_value' = SetSlice(mr_value, i, chunksize, result)
            /\ UNCHANGED mr_success
       ELSE IF ~success /\ mr_success
            THEN mr_success' = FALSE /\ mr_value' = result
            ELSE UNCHANGED <<mr_success, mr_value>>

\* Variant: the result is ready as soon as one chunk has been delivered.
MapReady_AnyChunk(number_left, length, cs) ==
    number_left < NumChunks(length, cs)

\* The MapResult event is set once all chunks have been delivered.
MapReady(number_left, length, cs) == number_left = 0

\* Variant: a failure of a unit is ignored.
MapGet_IgnoreFailure(success) == "return"

\* ApplyResult.get(): return the value or raise the stored exception.
MapGet(success) == IF success THEN "return" ELSE "raise"

\* max(accuracies)
MaxOf(seq) ==
    CHOOSE m \in {seq[j] : j \in 1 .. Len(seq)} :
        \A j \in 1 .. Len(seq) : seq[j] <= m

\* Variant: the last fold with the maximum is selected.
IndexOfMax_Last(accuracies) ==
    (CHOOSE j \in 1 .. Len(accuracies) :
        /\ accuracies[j] = MaxOf(accuracies)
        /\ \A h \in (j + 1) .. Len(accuracies) :
               accuracies[h] # MaxOf(accuracies)) - 1

\* accuracies.index(max(accuracies)), 0-based
IndexOfMax(accuracies) ==
    (CHOOSE j \in 1 .. Len(accuracies) :
        /\ accuracies[j] = MaxOf(accuracies)
        /\ \A h \in 1 .. (j - 1) : accuracies[h] # MaxOf(accuracies)) - 1

\* int(n_samples * 0.2) rounded up: the size of the test partition
TestSize(n) == (n + 4) \div 5

\* The index sets train_test_split can put in the test partition.
TestSplits(n) == {S \in SUBSET (0 .. (n - 1)) : Cardinality(S) = TestSize(n)}

\* Variant: the remainder of n / k is not spread over the first folds.
KFoldStart_NoRemainder(n, k, i) == i * (n \div k)

\* KFold without shuffling: the first n % k folds have n // k + 1 samples,
\* the others n // k; fold i starts where fold i - 1 stops.
KFoldStart(n, k, i) ==
    i * (n \div k) + (IF i < n % k THEN i ELSE n % k)

KFoldSize(n, k, i) == n \div k + (IF i < n % k THEN 1 ELSE 0)

\* enumerate(kf.split(X)): (train_idx, val_idx) of fold 0 .. k - 1 over the
\* indices of X
KFoldSplit(n, k) ==
    [f \in 1 .. k |->
        LET val == {x \in 0 .. (n - 1) :
                      /\ x >= KFoldStart(n, k, f - 1)
                      /\ x < KFoldStart(n, k, f - 1) + KFoldSize(n, k, f - 1)}
        IN  [train_idx |-> (0 .. (n - 1)) \ val, val_idx |-> val]]

\* main, lines 69-77 and 119-121: the branch on args.folds.
MainBranch ==
    /\ kpc = "main"
    /\ kpc' = IF folds < 2 THEN "single" ELSE "kfold"
    /\ UNCHANGED <<simVars, poolVars, results, error, best_model_idx,
                   tested_model, test_evaluated, summary_emitted>>

\* main, lines 78-118: train one model on the whole training set, test it.
MainSingleSplit ==
    /\ kpc = "single"
    /\ test_evaluated' = TRUE
    /\ kpc' = "end"
    /\ UNCHANGED <<simVars, poolVars, results, error, best_model_idx,
                   tested_model, summary_emitted>>

\* parallel_kfold, lines 44-53: the pool is created and starmap submits one
\* task per fold, grouped in chunks.
StarmapSubmit ==
    /\ kpc = "kfold"
    /\ IF folds > n_samples
       THEN \* kf.split(X) raises: more splits than samples
            /\ error' = [type |-> "ValueError"]
            /\ kpc' = "raised"
            /\ UNCHANGED <<tasks, chunksize, taskqueue, mr_value, mr_success,
                           mr_number_left>>
       ELSE /\ tasks' = KFoldSplit(n_samples, folds)
            /\ chunksize' = ChunkSize(folds, processors)
            /\ taskqueue' = [i \in 1 .. NumChunks(folds, chunksize') |-> i - 1]
            /\ mr_value' = [j \in 1 .. folds |-> None]
            /\ mr_success' = TRUE
            /\ mr_number_left' = NumChunks(folds, chunksize')
            /\ kpc' = "starmap"
            /\ UNCHANGED error
    /\ UNCHANGED <<simVars, folds, processors, n_samples, test_idx, worker,
                   completed, raised, results, best_model_idx, tested_model,
                   test_evaluated, summary_emitted>>

\* A pool worker takes the next chunk from the task queue.
WorkerTake(w) ==
    /\ kpc = "starmap"
    /\ worker[w].chunk = -1
    /\ taskqueue # <<>>
    /\ worker' = [worker EXCEPT ![w] = [chunk |-> Head(taskqueue), pos |-> 0,
                                        out |-> <<>>]]
    /\ taskqueue' = Tail(taskqueue)
    /\ UNCHANGED <<simVars, folds, processors, n_samples, test_idx, tasks,
                   chunksize, mr_value,
                   mr_success, mr_number_left, completed, raised, mainVars>>

\* The fold the worker's chunk is at.
CurrentFold(w) == worker[w].chunk * chunksize + worker[w].pos

\* train(fold, ...) returns in a worker; the chunk's result is delivered
\* when its last task has returned.
WorkerTaskReturns(w) ==
    /\ kpc = "starmap"
    /\ worker[w].chunk # -1
    /\ \E acc \in Accs :
         LET out == Append(worker[w].out, FoldResult(CurrentFold(w), acc))
         IN  IF Len(out) = ChunkLen(worker[w].chunk, folds, chunksize)
             THEN /\ MapSet(worker[w].chunk, TRUE, out)
                  /\ completed' = Append(completed, worker[w].chunk)
                  /\ worker' = [worker EXCEPT ![w] = IdleWorker]
             ELSE /\ worker' = [worker EXCEPT ![w].pos = @ + 1, ![w].out = out]
                  /\ UNCHANGED <<mr_value, mr_success, mr_number_left,
                                 completed>>
    /\ UNCHANGED <<simVars, folds, processors, n_samples, test_idx, tasks,
                   chunksize, taskqueue, raised,
                   mainVars>>

\* train(fold, ...) raises in a worker: the rest of the chunk is not run
\* and the exception is delivered as the chunk's result.
WorkerTaskRaises(w) ==
    /\ kpc = "starmap"
    /\ worker[w].chunk # -1
    /\ MapSet(worker[w].chunk, FALSE, UnitError(CurrentFold(w)))
    /\ completed' = Append(completed, worker[w].chunk)
    /\ raised' = Append(raised, CurrentFold(w))
    /\ worker' = [worker EXCEPT ![w] = IdleWorker]
    /\ UNCHANGED <<simVars, folds, processors, n_samples, test_idx, tasks,
                   chunksize, taskqueue, mainVars>>

\* starmap's get() returns or raises once the MapResult is ready; on return
\* the pool is left and parallel_kfold takes end_time (lines 55-57).
StarmapGet ==
    /\ kpc = "starmap"
    /\ MapReady(mr_number_left, folds, chunksize)
    /\ IF MapGet(mr_success) = "return"
       THEN results' = mr_value /\ kpc' = "joined" /\ UNCHANGED error
       ELSE error' = mr_value /\ kpc' = "raised" /\ UNCHANGED results
    /\ UNCHANGED <<simVars, poolVars, best_model_idx, tested_model,
                   test_evaluated, summary_emitted>>

\* main, lines 123-126: the accuracies and the index of the best model.
MainSelect ==
    /\ kpc = "joined"
    /\ best_model_idx' =
           IndexOfMax([j \in 1 .. Len(results) |-> results[j].acc])
    /\ kpc' = "selected"
    /\ UNCHANGED <<simVars, poolVars, results, error, tested_model,
                   test_evaluated, summary_emitted>>

\* main, line 128: test_model(results[best_model_idx][2], ...)
MainTest ==
    /\ kpc = "selected"
    /\ tested_model' = results[best_model_idx + 1].fold
    /\ test_evaluated' = TRUE
    /\ kpc' = "tested"
    /\ UNCHANGED <<simVars, poolVars, results, error, best_model_idx,
                   summary_emitted>>

\* main, lines 129-135: the summary lines.
MainSummary ==
    /\ kpc = "tested"
    /\ summary_emitted' = TRUE
    /\ kpc' = "end"
    /\ UNCHANGED <<simVars, poolVars, results, error, best_model_idx,
                   tested_model, test_evaluated>>

\* The simulated multi-agent program is not running.
SimIdle ==
    /\ num_processors = 1
    /\ neural_net_model = [a \in AgentIds(1) |-> None]
    /\ pre_sync = neural_net_model
    /\ sync_arg = None /\ sync_calls = 0
    /\ seed_alias = NoAlias /\ seed_after = None
    /\ n_train = 0 /\ shard_X = <<>> /\ shard_y = <<>>
    /\ epochs = 1 /\ patience = 1 /\ num_batches = 1
    /\ ValidArgs
    /\ mpc = "off" /\ cur = 0
    /\ TrainIdle
    /\ ReportIdle

InitPool ==
    /\ SimIdle
    /\ folds \in 1 .. MaxFolds
    /\ processors \in 1 .. MaxPool
    /\ n_samples = MaxSamples
    /\ test_idx = {x \in 0 .. (n_samples - 1) : x >= n_samples - TestSize(n_samples)}
    /\ tasks = <<>>
    /\ kpc = "main"
    /\ chunksize = 0
    /\ taskqueue = <<>>
    /\ worker = [w \in 1 .. processors |-> IdleWorker]
    /\ mr_value = <<>> /\ mr_success = TRUE /\ mr_number_left = 0
    /\ completed = <<>> /\ raised = <<>>
    /\ results = None /\ error = None
    /\ best_model_idx = -1 /\ tested_model = -1
    /\ test_evaluated = FALSE /\ summary_emitted = FALSE

NextPool ==
    \/ MainBranch
    \/ MainSingleSplit
    \/ StarmapSubmit
    \/ \E w \in 1 .. processors : WorkerTake(w)
    \/ \E w \in 1 .. processors : WorkerTaskReturns(w)
    \/ \E w \in 1 .. processors : WorkerTaskRaises(w)
    \/ StarmapGet
    \/ MainSelect
    \/ MainTest
    \/ MainSummary

SpecPool == InitPool /\ [][NextPool]_vars

\* The k-fold program with one pool process, over all dataset sizes, fold
\* counts and outcomes of the train/test split.
InitSplit ==
    /\ SimIdle
    /\ folds \in 1 .. MaxFolds
    /\ processors = 1
    /\ n_samples \in 2 .. MaxSamples
    /\ test_idx \in TestSplits(n_samples)
    /\ tasks = <<>>
    /\ kpc = "main"
    /\ chunksize = 0
    /\ taskqueue = <<>>
    /\ worker = [w \in 1 .. processors |-> IdleWorker]
    /\ mr_value = <<>> /\ mr_success = TRUE /\ mr_number_left = 0
    /\ completed = <<>> /\ raised = <<>>
    /\ results = None /\ error = None
    /\ best_model_idx = -1 /\ tested_model = -1
    /\ test_evaluated = FALSE /\ summary_emitted = FALSE

SpecSplit == InitSplit /\ [][NextPool]_vars

(***************************************************************************)
(* Properties.                                                             *)
(***************************************************************************)
Holders(nn) == {a \in DOMAIN nn : nn[a] # None}

\* Sum over the agents in S of parameter k, as an unreduced fraction.
RECURSIVE SumOver(_, _, _)
SumOver(nn, S, k) ==
    IF S = {}
    THEN <<0, 1>>
    ELSE LET a == CHOOSE x \in S : TRUE
             r == SumOver(nn, S \ {a}, k)
         IN  <<nn[a][k][1] * r[2] + r[1] * nn[a][k][2], nn[a][k][2] * r[2]>>

\* v = (sum over S of parameter k) / |S|
IsMeanOf(v, nn, S, k) ==
    LET t == SumOver(nn, S, k)
    IN  v[1] * Cardinality(S) * t[2] = t[1] * v[2]

\* A synchronize_weights call with a state dict has just run.
Synced == sync_calls > 0 /\ sync_arg # None

\* C1: when all n >= 1 agents hold a model, after
\* synchronize_weights(state_dict) every agent's value of every parameter is
\* (v1+...+vn)/n of the values before the call, and all agents hold
\* identical parameters.
C1_SyncAveragesAll ==
    (Synced /\ Holders(pre_sync) = DOMAIN pre_sync) =>
        /\ \A a \in DOMAIN neural_net_model : \A k \in Names :
               IsMeanOf(neural_net_model[a][k], pre_sync, DOMAIN pre_sync, k)
        /\ \A a, b \in DOMAIN neural_net_model :
               neural_net_model[a] = neural_net_model[b]

C1_Witness ==
    /\ Synced /\ num_processors >= 2
    /\ Holders(pre_sync) = DOMAIN pre_sync
    /\ pre_sync[0] # pre_sync[1]
    /\ neural_net_model[0] # pre_sync[0]
    /\ neural_net_model[0] = neural_net_model[1]

\* C2: agents without a model are skipped and the average of each parameter
\* is the sum over the model-holding agents divided by the number of
\* model-holding agents.
C2_DivisorIsHolders ==
    (Synced /\ Holders(pre_sync) # {}) =>
        /\ Holders(neural_net_model) = Holders(pre_sync)
        /\ \A a \in Holders(neural_net_model) : \A k \in Names :
               IsMeanOf(neural_net_model[a][k], pre_sync, Holders(pre_sync), k)

\* C3: within a round no synchronization (averaging and overwrite of the
\* agents' parameters) happens before every agent has completed its local
\* training step.
C3_SyncOnlyAfterAllStepped ==
    [][(sync_calls' = sync_calls + 1 /\ neural_net_model' # neural_net_model)
          => AllStepped]_vars

\* C4: with more than one processor the agents are parameter-identical
\* when step aggregates the metrics, because the synchronization call of
\* step has averaged and overwritten their models.
C4_IdenticalAtAggregation ==
    (mpc = "aggregate" /\ num_processors > 1) =>
        \A a, b \in DOMAIN neural_net_model :
            neural_net_model[a] = neural_net_model[b]

InEpoch == tpc \in {"batch", "callback", "validate", "early_stop"}

LoopExited == tpc \in {"finish", "returned"}

\* C5: the epoch loop of train_simulated stops exactly at the epoch in
\* which epochs_without_improvement reaches patience: a later epoch is
\* entered only while the counter is below patience, after the loop has
\* exited the batches, callbacks and validations executed are exactly those
\* of the epochs up to the stopping one, and an exit before the last epoch
\* happens only with the counter at patience.
C5_StopsExactlyAtPatience ==
    /\ (InEpoch /\ epoch > 0) => epochs_without_improvement < patience
    /\ LoopExited =>
          /\ batches_run = (epoch + 1) * num_batches
          /\ callbacks_run = epoch + 1
          /\ validations_run = epoch + 1
          /\ epoch + 1 < epochs => epochs_without_improvement >= patience
          /\ (epochs_without_improvement >= patience /\ patience >= 1)
                => epochs_without_improvement = patience

C5_Witness ==
    /\ LoopExited
    /\ patience = 2
    /\ epochs_without_improvement = patience
    /\ epoch = 1 /\ epochs = 3

\* C6: the early-stopping state starts as best_val_loss = +infinity and
\* counter 0; on a validation loss v < best_val_loss the best becomes v and
\* the counter 0, otherwise (also for v equal to the best) the counter grows
\* by exactly 1 and the best is unchanged.
C6_EarlyStoppingUpdate ==
    [][ /\ (tpc = "setup" /\ tpc' # "setup") =>
               (best_val_loss' = Inf /\ epochs_without_improvement' = 0)
        /\ (tpc = "early_stop" /\ tpc' # "early_stop") =>
               IF val_loss < best_val_loss
               THEN best_val_loss' = val_loss /\ epochs_without_improvement' = 0
               ELSE /\ best_val_loss' = best_val_loss
                    /\ epochs_without_improvement' = epochs_without_improvement + 1
        /\ (tpc # "early_stop" /\ tpc # "setup") =>
               UNCHANGED <<best_val_loss, epochs_without_improvement>>
      ]_vars

C6_Witness ==
    /\ tpc \in {"batch", "finish"}
    /\ validations_run = 2
    /\ val_loss = best_val_loss /\ best_val_loss < Inf
    /\ epochs_without_improvement = 1

\* parallel_kfold has returned to main.
PastJoin == kpc \in {"joined", "selected", "tested"} \/ (kpc = "end" /\ folds >= 2)

\* Some dispatched fold unit is still queued or running.
UnitsPending ==
    \/ taskqueue # <<>>
    \/ \E w \in DOMAIN worker : worker[w].chunk # -1

\* C7: parallel_kfold returns exactly one result per fold and the result
\* at position i is the result of fold i, whatever the pool size, the fold
\* count and the order in which the units complete.
C7_ResultsInSubmissionOrder ==
    results # None =>
        /\ Len(results) = folds
        /\ \A j \in 1 .. Len(results) :
               results[j] # None /\ results[j].fold = j - 1

C7_Witness ==
    /\ results # None
    /\ folds > processors
    /\ completed[1] # 0

\* C8: main gets past the pool join (end timestamp, best-model selection,
\* test evaluation) only when no dispatched unit is queued or running and
\* every chunk has been delivered, also with fewer pool slots than folds.
C8_JoinAfterAllUnits ==
    PastJoin =>
        /\ ~UnitsPending
        /\ Len(completed) = NumChunks(folds, chunksize)
        /\ \A j \in 1 .. folds : results[j] # None

C8_Witness ==
    /\ kpc = "tested"
    /\ processors < folds
    /\ ~UnitsPending

C10_BestFoldSelected ==
    best_model_idx # -1 =>
        LET b == best_model_idx + 1
        IN  /\ b \in 1 .. Len(results)
            /\ \A j \in 1 .. Len(results) : results[j].acc <= results[b].acc
            /\ \A j \in 1 .. (b - 1) : results[j].acc < results[b].acc
            /\ test_evaluated => tested_model = results[b].fold

C10_Witness ==
    /\ kpc = "tested"
    /\ \E j \in 1 .. Len(results) :
           /\ j > best_model_idx + 1
           /\ results[j].acc = results[best_model_idx + 1].acc
    /\ \E j \in 1 .. Len(results) :
           results[j].acc < results[best_model_idx + 1].acc

\* The fold units have been dispatched.
Dispatched == tasks # <<>>

\* C11: no example of the held-out test partition is in the training or
\* validation index set of any fold dispatched by parallel_kfold.
C11_TestPartitionHeldOut ==
    Dispatched =>
        \A f \in 1 .. Len(tasks) :
            test_idx \cap (tasks[f].train_idx \cup tasks[f].val_idx) = {}

\* C12: for K >= 2 folds over at least K examples every index is in the
\* validation set of exactly one fold, the validation sets cover the whole
\* index set, and train and validation of a fold are disjoint.
C12_FoldsPartitionDataset ==
    Dispatched =>
        /\ Len(tasks) = folds
        /\ \A x \in 0 .. (n_samples - 1) :
               Cardinality({f \in 1 .. folds : x \in tasks[f].val_idx}) = 1
        /\ UNION {tasks[f].val_idx : f \in 1 .. folds} = 0 .. (n_samples - 1)
        /\ \A f \in 1 .. folds :
               tasks[f].train_idx \cap tasks[f].val_idx = {}

C12_Witness ==
    /\ Dispatched
    /\ folds = 4 /\ n_samples = 6
    /\ Cardinality(tasks[1].val_idx) = 2
    /\ Cardinality(tasks[4].val_idx) = 1

\* The indices a shard holds.
ShardSet(sh) == {sh[j] : j \in 1 .. Len(sh)}

\* C13: for N >= 1 processors exactly N agents are created; their training
\* shards are contiguous and in the original order, do not overlap, cover
\* every training example and differ in size by at most 1; the input and
\* the label shard of an agent cover the same indices.
C13_ShardsPartitionTrainingSet ==
    mpc # "construct" =>
        /\ DOMAIN neural_net_model = AgentIds(num_processors)
        /\ DOMAIN shard_X = AgentIds(num_processors)
        /\ \A a \in DOMAIN shard_X :
               /\ \A j \in 1 .. (Len(shard_X[a]) - 1) :
                      shard_X[a][j + 1] = shard_X[a][j] + 1
               /\ shard_y[a] = shard_X[a]
        /\ \A a, b \in DOMAIN shard_X :
               /\ a < b =>
                      \A x \in ShardSet(shard_X[a]) :
                          \A z \in ShardSet(shard_X[b]) : x < z
               /\ Len(shard_X[a]) - Len(shard_X[b]) <= 1
        /\ UNION {ShardSet(shard_X[a]) : a \in DOMAIN shard_X}
               = 0 .. (n_train - 1)

C13_Witness ==
    /\ mpc = "schedule"
    /\ num_processors = 3 /\ n_train = 7
    /\ Len(shard_X[0]) = 3 /\ Len(shard_X[2]) = 2

\* A selector of the running train_simulated call is not recognized.
UnknownSelector ==
    \/ activation \notin ActivationSelectors
    \/ loss \notin LossSelectors
    \/ optimizer \notin OptimizerSelectors

\* C14 (as claimed): with an unrecognized activation, loss or optimizer
\* selector train_simulated fails with a configuration error before training
\* starts: no epoch is begun, no batch is processed, no optimizer step is
\* applied and the synchronization callback is never invoked.
C14_FailsBeforeTraining ==
    (UnknownSelector /\ tpc \notin {"idle", "setup"}) =>
        /\ tpc = "raised"
        /\ train_exc # None
        /\ epochs_begun = 0
        /\ batches_run = 0
        /\ callbacks_run = 0

\* train_simulated runs with recognized selectors and without a callback.
RunsWithoutCallback == sync_callback = NoCallback /\ ~UnknownSelector

\* C15 (as claimed): the synchronization callback is optional: without one
\* train_simulated runs its epochs without any synchronization call and
\* returns its result instead of failing.
C15_CallbackOptional ==
    RunsWithoutCallback =>
        /\ tpc # "raised"
        /\ callbacks_run = 0 /\ sync_calls = 0

\* C16: the processing time train_simulated returns is the maximum of the
\* durations of the epochs that were executed, one duration per executed
\* epoch and none for the epochs early stopping skipped; it is neither their
\* sum nor their mean.
C16_ProcessingTimeIsSlowestEpoch ==
    tpc = "returned" =>
        /\ Len(processing_times) = epoch + 1
        /\ Len(processing_times) = epochs_begun
        /\ \A j \in 1 .. Len(processing_times) :
               processing_times[j] <= slowest_processing_time
        /\ \E j \in 1 .. Len(processing_times) :
               processing_times[j] = slowest_processing_time

C16_Witness ==
    /\ tpc = "returned"
    /\ epochs = 3
    /\ processing_times = <<1, 2>>
    /\ slowest_processing_time = 2

\* The percentage of agent a's examples it classified correctly.
AccuracyOf(a) ==
    RatNorm(correct_classifications[a] * 100, total_examples_processed[a])

\* The mean of the agents' accuracies.
RECURSIVE SumAccuracies(_)
SumAccuracies(n) ==
    IF n = 0 THEN RatOfInt(0) ELSE RatAdd(SumAccuracies(n - 1), AccuracyOf(n - 1))

MeanAccuracy == RatDivInt(SumAccuracies(num_processors), num_processors)

\* C17 (as claimed): the aggregated summary reports the pooled accuracy
\* sum(correct_i)/sum(total_i) and also the mean of the per-worker
\* accuracies, together with the cumulative time (sum of the per-worker
\* times) and the average time per node (cumulative time / workers).
C17_BothAccuraciesReported ==
    summary # None =>
        /\ summary.cumulative_time = sum(processing_time, num_processors)
        /\ summary.average_time_per_node =
               RatNorm(summary.cumulative_time, num_processors)
        /\ summary.final_accuracy =
               RatNorm(sum(correct_classifications, num_processors) * 100,
                       sum(total_examples_processed, num_processors))
        /\ "mean_accuracy" \in DOMAIN summary
        /\ summary.mean_accuracy = MeanAccuracy

\* C18: report_testing_accuracy evaluates only after a final
\* synchronization seeded from agent 0's state: the latest
\* synchronize_weights call got agent 0's pre-synchronization state dict,
\* the model evaluated is agent 0's model as that call left it, in
\* evaluation mode and with gradients disabled.
C18_EvaluatesAfterFinalSync ==
    /\ mpc # "done" => test_model = None
    /\ mpc = "done" =>
          /\ sync_calls > 0
          /\ sync_arg = pre_sync[0]
          /\ neural_net_model = synchronize_weights(pre_sync, pre_sync[0])
          /\ test_model = neural_net_model[0]
          /\ test_mode = "eval"
          /\ ~test_grad

C18_Witness ==
    /\ mpc = "done"
    /\ num_processors = 2
    /\ test_model # pre_sync[0]
    /\ test_model = neural_net_model[1]

\* C19: in every executed epoch of train_simulated all the batches come
\* first, then the synchronization callback, then the validation, then the
\* early-stopping update and check; the callback runs once per executed
\* epoch, so after the loop the callbacks are as many as the epochs executed.
C19_EpochStepOrder ==
    (sync_callback # NoCallback /\ ~UnknownSelector) =>
        /\ tpc = "batch" =>
              /\ batches_run = (epochs_begun - 1) * num_batches + batch
              /\ batch < num_batches
              /\ callbacks_run = epochs_begun - 1
              /\ validations_run = epochs_begun - 1
        /\ tpc = "callback" =>
              /\ batches_run = epochs_begun * num_batches
              /\ callbacks_run = epochs_begun - 1
              /\ validations_run = epochs_begun - 1
        /\ tpc = "validate" =>
              /\ batches_run = epochs_begun * num_batches
              /\ callbacks_run = epochs_begun
              /\ validations_run = epochs_begun - 1
        /\ tpc = "early_stop" =>
              /\ batches_run = epochs_begun * num_batches
              /\ callbacks_run = epochs_begun
              /\ validations_run = epochs_begun
        /\ LoopExited =>
              /\ epochs_begun = epoch + 1
              /\ callbacks_run = epochs_begun
              /\ sync_calls = epochs_begun

C19_Witness ==
    /\ tpc = "returned"
    /\ sync_callback # NoCallback
    /\ epochs = 3 /\ epochs_begun = 2 /\ num_batches = 2
    /\ callbacks_run = 2 /\ batches_run = 4

\* C20: synchronize_weights is idempotent: a synchronization of agents that
\* the previous call has just synchronized changes no agent's parameters,
\* also when some agents hold no model.
C20_SyncIdempotent ==
    [][(Synced /\ sync_calls' = sync_calls + 1 /\ sync_arg' # None)
          => neural_net_model' = neural_net_model]_vars

\* The latest synchronize_weights call would have left the agents as they
\* are with any other state dict of the same parameter names as argument.
SeedValuesIgnored ==
    /\ \A seed \in StateDicts :
           neural_net_model = synchronize_weights(pre_sync, seed)
    /\ \A a \in Holders(pre_sync) :
           neural_net_model = synchronize_weights(pre_sync, pre_sync[a])
    /\ \A a \in Holders(neural_net_model) :
           DOMAIN neural_net_model[a] = DOMAIN sync_arg

\* C21 (as claimed): the result of synchronize_weights does not depend on
\* which state dict is passed as the seed, the seed contributes only the
\* parameter names, and the seed is not modified by the call.
C21_SeedIndependentAndUnmodified ==
    Synced =>
        /\ SeedValuesIgnored
        /\ seed_after = sync_arg

\* C21 (amended): the result does not depend on the seed's values, only on
\* its parameter names; a seed that is a dict of its own is not modified,
\* while a seed taken from an agent's model (state_dict()) refers to that
\* agent's parameters and holds the averaged values after the call.
C21_SeedValuesIgnoredAliasOverwritten ==
    Synced =>
        /\ SeedValuesIgnored
        /\ seed_alias = NoAlias => seed_after = sync_arg
        /\ seed_alias # NoAlias =>
               /\ sync_arg = pre_sync[seed_alias]
               /\ seed_after = neural_net_model[seed_alias]

C21_Witness ==
    /\ Synced
    /\ num_processors = 2
    /\ seed_alias = 0
    /\ pre_sync[1] # None /\ pre_sync[1] # pre_sync[0]
    /\ seed_after # sync_arg

\* train_simulated runs with recognized selectors and a callable callback.
RunsNormally == sync_callback # NoCallback /\ ~UnknownSelector

\* C22: for every epoch count E >= 1, patience and sequence of validation
\* losses the epoch loop of train_simulated terminates, having executed at
\* least 1 and at most E epochs; an epoch after the first is entered exactly
\* when the counter is below patience after the epoch before it and fewer
\* than E epochs have run, so all E epochs run exactly when the counter
\* stays below patience through epoch E - 1; with patience >= 1 the counter
\* never exceeds patience.
C22_LoopTerminatesWithinEpochs ==
    /\ [](/\ (InEpoch \/ LoopExited) =>
                 (epochs_begun >= 1 /\ epochs_begun <= epochs)
          /\ patience >= 1 => epochs_without_improvement <= patience
          /\ (LoopExited /\ epochs_begun < epochs) =>
                 epochs_without_improvement >= patience)
    /\ [][/\ epochs_begun' = epochs_begun + 1 /\ epochs_begun >= 1 =>
                 epochs_without_improvement' < patience
          /\ (tpc = "early_stop" /\ tpc' # "early_stop"
                 /\ epochs_without_improvement' < patience
                 /\ epochs_begun < epochs) =>
                 (epochs_begun' = epochs_begun + 1 /\ tpc' = "batch")]_vars
    /\ (RunsNormally /\ tpc = "setup") ~> LoopExited

C22_Witness ==
    /\ tpc = "returned"
    /\ epochs = 3 /\ epochs_begun = 3
    /\ patience = 2 /\ epochs_without_improvement = 1
    /\ validations_run = 3

====
